---- MODULE Spec2Model ----
(***************************************************************************)
(* pz_mod_builder: the mod.info record (ModInfo) and the validation and    *)
(* packaging engine (ModBuilder).                                          *)
(*                                                                         *)
(* Text is modelled as a sequence of one-character strings, so that        *)
(* str.strip, str.split, str.join, Path.suffix and sorted() are computed   *)
(* character by character as Python computes them.                         *)
(***************************************************************************)
EXTENDS Integers, Sequences, FiniteSets, TLC

VARIABLES
    rec,        \* SpecInfo: the ModInfo object being edited by direct assignment
    content,    \* SpecInfo: the text last produced by to_string() ("none" before)
    fresh,      \* SpecInfo: the fresh ModInfo that parsed `content` ("none" before)
    ipc,        \* SpecInfo: "edit", "saved" or "loaded"
    nassign,    \* SpecInfo: number of direct assignments made so far
    input,      \* SpecParse: the descriptor given to the parser (see text_of)
    cli,        \* SpecCli: one run of the `build` command (see CliRuns)
    files,      \* Spec: the regular files of the filesystem (absolute paths)
    dirs,       \* Spec: the directories of the filesystem (absolute paths)
    descriptor, \* Spec: the text of <root>/mod.info while that file exists
    image,      \* Spec: what the bytes of each image file are (see ImageKinds)
    scan,       \* Spec: the order in which the filesystem enumerates a directory
    bpc,        \* Spec: "new" before ModBuilder(mod_path), "ready" after
    mod_info,   \* Spec: ModBuilder.mod_info (None, or <<r>> for the ModInfo r)
    last,       \* Spec: the last call on the builder and what it returned
    nchanges,   \* Spec: number of changes made to the root by its author
    nbuilds     \* Spec: number of build() calls made so far

ivars == <<rec, content, fresh, ipc, nassign, input, cli>>
bvars ==
    <<files, dirs, descriptor, image, scan, bpc, mod_info, last, nchanges, nbuilds>>
vars == <<rec, content, fresh, ipc, nassign, input, cli,
          files, dirs, descriptor, image, scan, bpc, mod_info, last, nchanges,
          nbuilds>>

-----------------------------------------------------------------------------
(* Bounds *)

\* direct field assignments explored on one record
MaxAssign == 2

\* changes the author makes to the mod directory in one behaviour
MaxChanges == 1

\* build() calls made on one builder
MaxBuilds == 2

\* nested copytree calls the interpreter allows (sys.getrecursionlimit, scaled)
RecursionLimit == 3

-----------------------------------------------------------------------------
(* Python str primitives on character sequences *)

\* the characters str.strip() removes (those of them that the model writes)
Whitespace == {" ", "\t", "\n", "\r"}

RECURSIVE lstrip(_)
lstrip(s) ==
    IF s # <<>> /\ Head(s) \in Whitespace THEN lstrip(Tail(s)) ELSE s

RECURSIVE rstrip(_)
rstrip(s) ==
    IF s # <<>> /\ s[Len(s)] \in Whitespace
    THEN rstrip(SubSeq(s, 1, Len(s) - 1))
    ELSE s

\* str.strip()
strip(s) == rstrip(lstrip(s))

\* str.find(c) + 1 for a single character c: 0 when absent
find(s, c) ==
    IF \E i \in 1..Len(s) : s[i] = c
    THEN CHOOSE i \in 1..Len(s) : s[i] = c /\ \A j \in 1..(i - 1) : s[j] # c
    ELSE 0

\* str.rfind(c) + 1 for a single character c: 0 when absent
rfind(s, c) ==
    IF \E i \in 1..Len(s) : s[i] = c
    THEN CHOOSE i \in 1..Len(s) : s[i] = c /\ \A j \in (i + 1)..Len(s) : s[j] # c
    ELSE 0

\* str.split(sep) for a single character sep: always at least one piece
RECURSIVE split(_, _)
split(s, sep) ==
    LET i == find(s, sep) IN
    IF i = 0 THEN <<s>>
    ELSE <<SubSeq(s, 1, i - 1)>> \o split(SubSeq(s, i + 1, Len(s)), sep)

\* sep.join(parts)
RECURSIVE join(_, _)
join(sep, parts) ==
    IF parts = <<>> THEN <<>>
    ELSE IF Len(parts) = 1 THEN parts[1]
    ELSE parts[1] \o sep \o join(sep, Tail(parts))

-----------------------------------------------------------------------------
(* ModInfo (mod_info.py) *)

\* the string fields, in the order to_string() writes them
StrFields ==
    <<"name", "id", "description", "poster", "tile", "authors",
      "version", "url", "modversion", "pzversion">>

\* the text of each key as it stands in a mod.info line
KeyText(f) ==
    CASE f = "name"        -> <<"n","a","m","e">>
      [] f = "id"          -> <<"i","d">>
      [] f = "description" -> <<"d","e","s","c","r","i","p","t","i","o","n">>
      [] f = "poster"      -> <<"p","o","s","t","e","r">>
      [] f = "tile"        -> <<"t","i","l","e">>
      [] f = "authors"     -> <<"a","u","t","h","o","r","s">>
      [] f = "version"     -> <<"v","e","r","s","i","o","n">>
      [] f = "url"         -> <<"u","r","l">>
      [] f = "modversion"  -> <<"m","o","d","v","e","r","s","i","o","n">>
      [] f = "pzversion"   -> <<"p","z","v","e","r","s","i","o","n">>
      [] f = "require"     -> <<"r","e","q","u","i","r","e">>

\* ModInfo.__init__ without a file: the defaults
ModInfo_init ==
    [name |-> <<>>, id |-> <<>>, description |-> <<>>, poster |-> <<>>,
     tile |-> <<>>, authors |-> <<>>, version |-> <<"1", ".", "0">>,
     url |-> <<>>, modversion |-> <<>>, pzversion |-> <<"b", "4", "2">>,
     require |-> <<>>]

\* the comprehension without the strip() of the kept token:
\* [r for r in parts if r.strip()]
RECURSIVE require_tokens_untrimmed(_)
require_tokens_untrimmed(parts) ==
    IF parts = <<>> THEN <<>>
    ELSE (IF strip(Head(parts)) # <<>> THEN <<Head(parts)>> ELSE <<>>)
         \o require_tokens_untrimmed(Tail(parts))

\* [r.strip() for r in parts if r.strip()]
RECURSIVE require_tokens(_)
require_tokens(parts) ==
    IF parts = <<>> THEN <<>>
    ELSE (IF strip(Head(parts)) # <<>> THEN <<strip(Head(parts))>> ELSE <<>>)
         \o require_tokens(Tail(parts))

\* one iteration of the loop of _parse_content over a line of the content
parse_line(self, rawline) ==
    LET line == strip(rawline) IN
    IF line = <<>> \/ Head(line) = "#" THEN self
    ELSE LET i == find(line, "=") IN
         IF i = 0 THEN self
         ELSE LET key   == strip(SubSeq(line, 1, i - 1))
                  value == strip(SubSeq(line, i + 1, Len(line)))
              IN  IF \E f \in DOMAIN self : f # "require" /\ key = KeyText(f)
                  THEN LET f == CHOOSE g \in DOMAIN self :
                                    g # "require" /\ key = KeyText(g)
                       IN  [self EXCEPT ![f] = value]
                  ELSE IF key = KeyText("require")
                  THEN [self EXCEPT !.require =
                            require_tokens(split(value, ","))]
                  ELSE self

RECURSIVE parse_lines(_, _)
parse_lines(self, lines) ==
    IF lines = <<>> THEN self
    ELSE parse_lines(parse_line(self, Head(lines)), Tail(lines))

\* ModInfo._parse_content
_parse_content(self, text) == parse_lines(self, split(text, "\n"))

\* ModInfo(file_path) on a file holding `text`: defaults, then load()
ModInfo_load(text) == _parse_content(ModInfo_init, text)

\* the lines to_string() appends for the string fields k..10
RECURSIVE field_lines(_, _)
field_lines(self, k) ==
    IF k > Len(StrFields) THEN <<>>
    ELSE LET f == StrFields[k] IN
         (IF self[f] # <<>> THEN <<KeyText(f) \o <<"=">> \o self[f]>> ELSE <<>>)
         \o field_lines(self, k + 1)

\* ModInfo.to_string
to_string(self) ==
    LET lines == field_lines(self, 1)
                 \o (IF self.require # <<>>
                     THEN <<KeyText("require") \o <<"=">>
                            \o join(<<",">>, self.require)>>
                     ELSE <<>>)
    IN  join(<<"\n">>, lines) \o <<"\n">>

\* the characters of [A-Za-z0-9_]
Upper ==
    <<"A","B","C","D","E","F","G","H","I","J","K","L","M",
      "N","O","P","Q","R","S","T","U","V","W","X","Y","Z">>

Lower ==
    <<"a","b","c","d","e","f","g","h","i","j","k","l","m",
      "n","o","p","q","r","s","t","u","v","w","x","y","z">>

Digits == <<"0","1","2","3","4","5","6","7","8","9">>

Range(s) == {s[i] : i \in DOMAIN s}

WordChars == Range(Upper) \cup Range(Lower) \cup Range(Digits) \cup {"_"}

\* re.match(r'^[A-Za-z0-9_]+$', s): `$` also matches before one final newline
re_match_id(s) ==
    LET body == IF Len(s) >= 2 /\ s[Len(s)] = "\n"
                THEN SubSeq(s, 1, Len(s) - 1) ELSE s
    IN  body # <<>> /\ \A i \in DOMAIN body : body[i] \in WordChars

\* an issue: the fixed words of the message and the text formatted into it
Issue(msg, arg) == [msg |-> msg, arg |-> arg]

\* ModInfo.validate
ModInfo_validate(self) ==
    (IF self.name = <<>> THEN <<Issue("Mod name is required", <<>>)>> ELSE <<>>)
    \o (IF self.id = <<>> THEN <<Issue("Mod ID is required", <<>>)>> ELSE <<>>)
    \o (IF self.id # <<>> /\ ~re_match_id(self.id)
        THEN <<Issue("Mod ID must contain only letters, numbers, and underscores",
                     <<>>)>>
        ELSE <<>>)
    \o (IF self.description = <<>>
        THEN <<Issue("Mod description is required", <<>>)>> ELSE <<>>)

-----------------------------------------------------------------------------
(* Paths and the filesystem (pathlib, os.scandir) *)

\* the characters the model writes, in code-point order
Ascii ==
    <<"\t", "\n", "\r", " ", "#", ",", "-", ".", "/">> \o Digits \o <<"=">>
    \o Upper \o <<"_">> \o Lower

\* the rank of each character in code-point order
Code == [c \in Range(Ascii) |-> CHOOSE i \in DOMAIN Ascii : Ascii[i] = c]

\* a < b for str: the first differing character decides, a proper prefix is less
RECURSIVE str_lt(_, _)
str_lt(a, b) ==
    IF b = <<>> THEN FALSE
    ELSE IF a = <<>> THEN TRUE
    ELSE IF Head(a) # Head(b) THEN Code[Head(a)] < Code[Head(b)]
    ELSE str_lt(Tail(a), Tail(b))

\* bisect.insort on a sorted sequence of str
RECURSIVE insort(_, _)
insort(seq, x) ==
    IF seq = <<>> THEN <<x>>
    ELSE IF str_lt(x, Head(seq)) THEN <<x>> \o seq
    ELSE <<Head(seq)>> \o insort(Tail(seq), x)

\* sorted(S) for a set of str
RECURSIVE sorted(_)
sorted(S) ==
    IF S = {} THEN <<>>
    ELSE LET x == CHOOSE y \in S : TRUE
         IN  insort(sorted(S \ {x}), x)

reversed(s) == [i \in 1..Len(s) |-> s[Len(s) + 1 - i]]

\* str.lower() of one character
lower_char(c) ==
    IF \E i \in DOMAIN Upper : Upper[i] = c
    THEN Lower[CHOOSE i \in DOMAIN Upper : Upper[i] = c]
    ELSE c

\* str.lower()
lower(s) == [i \in 1..Len(s) |-> lower_char(s[i])]

\* PurePath.name: the last component of a path (a path is a sequence of names)
name_of(path) == path[Len(path)]

\* PurePath.suffix of a file name: from the last dot on, unless that dot is the
\* first or the last character of the name
suffix(name) ==
    LET i == rfind(name, ".") IN
    IF 1 < i /\ i < Len(name) THEN SubSeq(name, i, Len(name)) ELSE <<>>

\* PurePath.relative_to(base)
relative_to(path, base) == SubSeq(path, Len(base) + 1, Len(path))

\* str(path) of a relative path
str_of(path) == join(<<"/">>, path)

\* base / text, for the relative paths a descriptor declares
path_join(base, text) == base \o split(text, "/")

is_under(path, dir) ==
    Len(path) > Len(dir) /\ SubSeq(path, 1, Len(dir)) = dir

\* Path.exists()
exists(fs, path) == path \in fs.files \/ path \in fs.dirs

\* the names os.scandir(dir) yields, in the filesystem's order (fs.scan)
scandir(fs, dir) ==
    LET names == {p[Len(p)] : p \in {q \in fs.files \cup fs.dirs :
                                       Len(q) = Len(dir) + 1 /\ is_under(q, dir)}}
    IN  IF fs.scan = "asc" THEN sorted(names) ELSE reversed(sorted(names))

\* Path.rglob('*'): every entry of dir in scandir order, then the same for each
\* of its subdirectories in scandir order (pathlib's _RecursiveWildcardSelector)
RECURSIVE rglob(_, _)
RECURSIVE rglob_subdirs(_, _, _)
RECURSIVE rglob_entries(_, _)
rglob(fs, dir) ==
    rglob_entries(dir, scandir(fs, dir)) \o rglob_subdirs(fs, dir, scandir(fs, dir))

rglob_entries(dir, entries) ==
    IF entries = <<>> THEN <<>>
    ELSE <<Append(dir, Head(entries))>> \o rglob_entries(dir, Tail(entries))

rglob_subdirs(fs, dir, entries) ==
    IF entries = <<>> THEN <<>>
    ELSE (IF Append(dir, Head(entries)) \in fs.dirs
          THEN rglob(fs, Append(dir, Head(entries))) ELSE <<>>)
         \o rglob_subdirs(fs, dir, Tail(entries))

-----------------------------------------------------------------------------
(* ModBuilder (mod_builder.py) *)

\* Optional[ModInfo]: None, or the one-element sequence holding the record
None == <<>>

\* ModBuilder.VALID_EXTENSIONS
VALID_EXTENSIONS ==
    { <<".", "l", "u", "a">>,
      <<".", "t", "x", "t">>,
      <<".", "p", "n", "g">>,
      <<".", "o", "g", "g">>,
      <<".", "w", "a", "v">>,
      <<".", "x", "m", "l">>,
      <<".", "j", "s", "o", "n">>,
      <<".", "f", "b", "x">>,
      <<".", "b", "i", "n">>,
      <<".", "t", "i", "l", "e", "s">>,
      <<".", "t", "m", "x">>,
      <<".", "t", "s", "x">> }

\* the literal 'mod.info'
MOD_INFO == <<"m", "o", "d", ".", "i", "n", "f", "o">>

\* self.mod_path: the root directory the builder was constructed on
mod_path == << <<"R">> >>

\* self.mod_path / 'mod.info'
mod_info_path == Append(mod_path, MOD_INFO)

\* Image.open(path) followed by img.verify(): "ok", or the exception raised.
\* A directory cannot be opened; bytes that are no image are not identified;
\* a PNG whose chunk checksum is wrong is identified by open() and rejected
\* by verify() with SyntaxError; an image whose header declares more pixels
\* than Pillow allows is refused by open() with DecompressionBombError.
verify_image(fs, img, path) ==
    IF path \in fs.dirs THEN "IsADirectoryError"
    ELSE LET kind == IF path \in DOMAIN img THEN img[path] ELSE "text" IN
         CASE kind = "png"    -> "ok"
           [] kind = "text"   -> "UnidentifiedImageError"
           [] kind = "badcrc" -> "SyntaxError"
           [] kind = "bomb"   -> "DecompressionBombError"

\* except (IOError, UnidentifiedImageError): the exceptions that clause catches
caught_by_validate(exc) ==
    exc \in {"IsADirectoryError", "UnidentifiedImageError"}

\* the check for mod.info with `if` where the code has `elif`
descriptor_issues_if(fs, mi) ==
    (IF ~exists(fs, mod_info_path)
     THEN <<Issue("Missing mod.info file", <<>>)>> ELSE <<>>)
    \o (IF mi # None THEN ModInfo_validate(mi[1]) ELSE <<>>)

\* the first block of validate(): the check for mod.info
descriptor_issues(fs, mi) ==
    IF ~exists(fs, mod_info_path)
    THEN <<Issue("Missing mod.info file", <<>>)>>
    ELSE IF mi # None THEN ModInfo_validate(mi[1])
    ELSE <<>>

\* one of the two image blocks of validate(), for the declared path `value`
image_issues(fs, img, mi, value, notfound, invalid) ==
    IF mi = None \/ value = <<>>
    THEN [raised |-> FALSE, issues |-> <<>>]
    ELSE LET path == path_join(mod_path, value) IN
         IF ~exists(fs, path)
         THEN [raised |-> FALSE, issues |-> <<Issue(notfound, value)>>]
         ELSE LET exc == verify_image(fs, img, path) IN
              IF exc = "ok" THEN [raised |-> FALSE, issues |-> <<>>]
              ELSE IF caught_by_validate(exc)
              THEN [raised |-> FALSE, issues |-> <<Issue(invalid, value)>>]
              ELSE [raised |-> TRUE, issues |-> <<>>]

\* the condition of the extension loop of validate() for one rglob entry
unusual_extension(fs, file_path) ==
    /\ file_path \in fs.files
    /\ name_of(file_path) # MOD_INFO
    /\ LET ext == lower(suffix(name_of(file_path))) IN
       ext # <<>> /\ ext \notin VALID_EXTENSIONS

\* the extension loop of validate() over the entries rglob yields
RECURSIVE extension_issues(_, _)
extension_issues(fs, entries) ==
    IF entries = <<>> THEN <<>>
    ELSE (IF unusual_extension(fs, Head(entries))
          THEN <<Issue("Unusual file extension: ",
                       str_of(relative_to(Head(entries), mod_path)))>>
          ELSE <<>>)
         \o extension_issues(fs, Tail(entries))

\* validate() with the tile block moved before the poster block
validate_tile_first(fs, img, mi) ==
    LET d == descriptor_issues(fs, mi)
        p == image_issues(fs, img, mi, IF mi = None THEN <<>> ELSE mi[1].poster,
                          "Poster image not found: ", "Invalid poster image: ")
        t == image_issues(fs, img, mi, IF mi = None THEN <<>> ELSE mi[1].tile,
                          "Tile image not found: ", "Invalid tile image: ")
        e == extension_issues(fs, rglob(fs, mod_path))
    IN  IF p.raised \/ t.raised
        THEN [raised |-> TRUE, issues |-> <<>>]
        ELSE [raised |-> FALSE, issues |-> d \o t.issues \o p.issues \o e]

\* ModBuilder.validate: the issue list, or raised when an exception escapes
validate(fs, img, mi) ==
    LET d == descriptor_issues(fs, mi)
        p == image_issues(fs, img, mi, IF mi = None THEN <<>> ELSE mi[1].poster,
                          "Poster image not found: ", "Invalid poster image: ")
        t == image_issues(fs, img, mi, IF mi = None THEN <<>> ELSE mi[1].tile,
                          "Tile image not found: ", "Invalid tile image: ")
        e == extension_issues(fs, rglob(fs, mod_path))
    IN  IF p.raised \/ t.raised
        THEN [raised |-> TRUE, issues |-> <<>>]
        ELSE [raised |-> FALSE, issues |-> d \o p.issues \o t.issues \o e]

\* ModBuilder.get_file_list
get_file_list(fs) ==
    LET entries == rglob(fs, mod_path) IN
    sorted({str_of(relative_to(entries[i], mod_path)) :
              i \in {j \in DOMAIN entries : entries[j] \in fs.files}})

\* the loop of _create_zip over the entries rglob yields: the names written
RECURSIVE zip_entries(_, _)
zip_entries(fs, entries) ==
    IF entries = <<>> THEN <<>>
    ELSE (IF Head(entries) \in fs.files /\ Head(name_of(Head(entries))) # "."
          THEN <<str_of(relative_to(Head(entries), mod_path))>>
          ELSE <<>>)
         \o zip_entries(fs, Tail(entries))

\* ModBuilder._create_zip: ZipFile(zip_path, 'w') creates the (empty) archive
\* file, then the loop writes the entries
_create_zip(fs, zip_path) ==
    LET fs1 == [fs EXCEPT !.files = @ \cup {zip_path}] IN
    [fs1 EXCEPT !.entries = zip_entries(fs1, rglob(fs1, mod_path))]

\* shutil.rmtree(path)
rmtree(fs, path) ==
    [fs EXCEPT !.files = {p \in @ : ~is_under(p, path)},
               !.dirs = {p \in @ : p # path /\ ~is_under(p, path)}]

\* shutil.copytree(src, dst): list src (FileNotFoundError when it is missing),
\* make dst, copy every listed entry, a directory by a recursive call; past
\* the interpreter's recursion limit the call raises RecursionError, which
\* ends the whole copy
RECURSIVE copytree(_, _, _, _)
RECURSIVE copy_entries(_, _, _, _, _)
copytree(fs, src, dst, depth) ==
    IF depth > RecursionLimit \/ src \notin fs.dirs
    THEN [fs EXCEPT !.raised = TRUE]
    ELSE LET entries == scandir(fs, src) IN
         copy_entries([fs EXCEPT !.dirs = @ \cup {dst}], src, dst, entries, depth)

copy_entries(fs, src, dst, entries, depth) ==
    IF entries = <<>> \/ fs.raised THEN fs
    ELSE LET srcname == Append(src, Head(entries))
             dstname == Append(dst, Head(entries))
             fs1 == IF srcname \in fs.dirs
                    THEN copytree(fs, srcname, dstname, depth + 1)
                    ELSE IF srcname \in fs.files
                    THEN [fs EXCEPT !.files = @ \cup {dstname}]
                    ELSE fs
         IN  copy_entries(fs1, src, dst, Tail(entries), depth)

\* the name build() gives the artifact
mod_name(mi) ==
    IF mi # None /\ mi[1].id # <<>> THEN mi[1].id ELSE name_of(mod_path)

\* Path.mkdir(parents=True, exist_ok=True)
mkdir_parents(fs, path) ==
    [fs EXCEPT !.dirs = @ \cup {SubSeq(path, 1, k) : k \in 1..Len(path)}]

\* ModBuilder.build: the filesystem after the call, the returned path (ret),
\* the names written to the archive (entries), raised when an exception escapes
build(fs0, mi, output_dir, zip_file) ==
    LET fs == mkdir_parents(fs0, output_dir) IN
    IF zip_file
    THEN LET zip_path == Append(output_dir, mod_name(mi) \o <<".", "z", "i", "p">>)
         IN  [_create_zip(fs, zip_path) EXCEPT !.ret = zip_path]
    ELSE LET mod_output == Append(output_dir, mod_name(mi))
             fs1 == IF exists(fs, mod_output) THEN rmtree(fs, mod_output) ELSE fs
         IN  [copytree(fs1, mod_path, mod_output, 1) EXCEPT !.ret = mod_output]

-----------------------------------------------------------------------------
(* SpecInfo: a ModInfo edited by direct assignment, saved and loaded again *)

\* values a caller assigns to a string field
FieldValues ==
    { <<>>,
      <<"a">>,
      <<"a", " ", "b">>,
      <<" ", "a">>,
      <<"a", "=", "b">>,
      <<"#", "a">>,
      <<"a", "\n">>,
      <<"a", "\n", "i", "d", "=", "b">> }

\* values a caller assigns to the require list
RequireValues ==
    { <<>>,
      << <<"a">> >>,
      << <<"b">>, <<"a">> >>,
      << <<"a">>, <<"a">> >>,
      << <<"a", ",", "b">> >>,
      << <<>> >> }

\* no call of ModInfo.validate made yet
NoErrors == [op |-> "none", raised |-> FALSE, errors |-> <<>>]

InitInfo ==
    /\ rec = ModInfo_init
    /\ content = "none"
    /\ fresh = "none"
    /\ ipc = "edit"
    /\ nassign = 0
    /\ input = "none"
    /\ cli = "none"
    /\ files = {} /\ dirs = {} /\ descriptor = <<>> /\ image = <<>>
    /\ scan = "asc" /\ bpc = "new" /\ mod_info = None /\ last = NoErrors
    /\ nchanges = 0 /\ nbuilds = 0

\* mod_info.<field> = value
Assign(f, v) ==
    /\ nassign < MaxAssign
    /\ rec' = [rec EXCEPT ![f] = v]
    /\ nassign' = nassign + 1
    /\ content' = "none"
    /\ fresh' = "none"
    /\ ipc' = "edit"
    /\ UNCHANGED <<input, cli, bvars>>

\* ModInfo.save: content = self.to_string(), written to the file
Save ==
    /\ ipc = "edit"
    /\ content' = to_string(rec)
    /\ ipc' = "saved"
    /\ UNCHANGED <<rec, fresh, nassign, input, cli>>
    /\ UNCHANGED bvars

\* ModInfo(file_path) on the file just saved
Load ==
    /\ ipc = "saved"
    /\ fresh' = ModInfo_load(content)
    /\ ipc' = "loaded"
    /\ UNCHANGED <<rec, content, nassign, input, cli>>
    /\ UNCHANGED bvars

\* mod_info.validate(), called once on the record as it then stands
ValidateInfo ==
    /\ last.op = "none"
    /\ last' = [NoErrors EXCEPT !.op = "validate",
                               !.errors = ModInfo_validate(rec)]
    /\ UNCHANGED <<files, dirs, descriptor, image, scan, bpc, mod_info,
                   nchanges, nbuilds>>
    /\ UNCHANGED ivars

NextInfo ==
    \/ ValidateInfo
    \/ \E k \in 1..Len(StrFields) : \E v \in FieldValues : Assign(StrFields[k], v)
    \/ \E v \in RequireValues : Assign("require", v)
    \/ Save
    \/ Load

SpecInfo == InitInfo /\ [][NextInfo]_vars

-----------------------------------------------------------------------------
(* Spec: a mod directory, its author, and one ModBuilder on it *)

\* file names of the modelled mod directory
POSTER_PNG == <<"p", ".", "p", "n", "g">>
TILE_PNG == <<"t", ".", "p", "n", "g">>
B_OBJ == <<"b", ".", "o", "b", "j">>
X_OBJ == <<"x", ".", "O", "B", "J">>
HIDDEN == <<".", "h", "i", "d">>
README == <<"R", "E", "A", "D", "M", "E">>
SUBDIR == <<"a">>

ImagePaths == {Append(mod_path, POSTER_PNG), Append(mod_path, TILE_PNG)}

\* the files the author may create or remove, other than mod.info and the images
PlainPaths ==
    { Append(mod_path, B_OBJ),
      Append(mod_path, HIDDEN),
      Append(mod_path, README),
      mod_path \o <<SUBDIR, X_OBJ>>,
      mod_path \o <<SUBDIR, MOD_INFO>> }

\* what the bytes of an image file can be
ImageKinds == {"png", "text", "badcrc", "bomb"}

\* the directories build() is asked to write to: one outside the root (the
\* default ./mods_output seen from elsewhere), one inside it (./mods_output
\* seen from the mod directory itself)
OutsideDir == << <<"o", "u", "t">> >>
InsideDir == Append(mod_path, <<"d", "i", "s", "t">>)
OutputDirs == {OutsideDir, InsideDir}

Line(key, value) == KeyText(key) \o <<"=">> \o value \o <<"\n">>

\* the descriptor of tests/test_mod_builder.py, with shorter values
DescriptorFull ==
    Line("name", <<"T">>) \o Line("id", <<"M">>) \o Line("description", <<"D">>)
    \o Line("poster", POSTER_PNG) \o Line("tile", TILE_PNG)

\* a valid descriptor that declares no image
DescriptorPlain ==
    Line("name", <<"T">>) \o Line("id", <<"M">>) \o Line("description", <<"D">>)

\* a descriptor with a comment, padded keys, an ill-formed id and no name
DescriptorPoor ==
    <<"#", "x", "\n">> \o <<" ">> \o Line("id", <<" ", "M", "-", "1">>)
    \o Line("tile", TILE_PNG) \o Line("poster", POSTER_PNG)

\* a descriptor with no id
DescriptorNoId == Line("name", <<"T">>) \o Line("poster", POSTER_PNG)

Descriptors == {DescriptorFull, DescriptorPlain, DescriptorPoor, DescriptorNoId}

\* the mod directories a behaviour starts from
InitTrees ==
    { {mod_info_path} \cup ImagePaths,
      {mod_info_path, Append(mod_path, B_OBJ), Append(mod_path, HIDDEN),
       mod_path \o <<SUBDIR, X_OBJ>>},
      {Append(mod_path, README), mod_path \o <<SUBDIR, MOD_INFO>>} }

\* the directories that hold the files of a tree
parents(paths) ==
    UNION {{SubSeq(p, 1, k) : k \in 1..(Len(p) - 1)} : p \in paths}

\* the filesystem as the operations take it
FS ==
    [files |-> files, dirs |-> dirs, scan |-> scan,
     raised |-> FALSE, entries |-> <<>>, ret |-> <<>>]

NoCall ==
    [op |-> "none", raised |-> FALSE, issues |-> <<>>, zip |-> FALSE,
     out |-> <<>>, pre |-> <<>>, entries |-> <<>>, ret |-> <<>>]

Init ==
    /\ rec = ModInfo_init /\ content = "none" /\ fresh = "none"
    /\ ipc = "edit" /\ nassign = 0 /\ input = "none" /\ cli = "none"
    /\ files \in InitTrees
    /\ dirs = {mod_path} \cup parents(files)
    /\ descriptor \in IF mod_info_path \in files THEN Descriptors ELSE {<<>>}
    /\ image = [p \in ImagePaths |-> "png"]
    /\ scan \in {"asc", "desc"}
    /\ bpc = "new"
    /\ mod_info = None
    /\ last = NoCall
    /\ nchanges = 0
    /\ nbuilds = 0

\* ModBuilder.__init__ without the check that the root exists
Construct_unchecked ==
    /\ bpc = "new"
    /\ bpc' = "ready"
    /\ mod_info' = IF exists(FS, mod_info_path)
                   THEN <<ModInfo_load(descriptor)>> ELSE None
    /\ UNCHANGED <<files, dirs, descriptor, image, scan, last, nchanges, nbuilds>>
    /\ UNCHANGED ivars

\* ModBuilder.__init__: FileNotFoundError when the root does not exist (the
\* caller gets no builder: "failed"), else load mod.info if it exists
Construct ==
    /\ bpc = "new"
    /\ IF ~exists(FS, mod_path)
       THEN /\ bpc' = "failed"
            /\ mod_info' = None
       ELSE /\ bpc' = "ready"
            /\ mod_info' = IF exists(FS, mod_info_path)
                           THEN <<ModInfo_load(descriptor)>> ELSE None
    /\ UNCHANGED <<files, dirs, descriptor, image, scan, last, nchanges, nbuilds>>
    /\ UNCHANGED ivars

\* builder.validate()
Validate ==
    /\ bpc = "ready"
    /\ LET r == validate(FS, image, mod_info) IN
       last' = [NoCall EXCEPT !.op = "validate", !.raised = r.raised,
                              !.issues = r.issues]
    /\ UNCHANGED <<files, dirs, descriptor, image, scan, bpc, mod_info, nchanges,
                   nbuilds>>
    /\ UNCHANGED ivars

\* builder.build(output_dir, zip_file)
Build(output_dir, zip_file) ==
    /\ bpc = "ready"
    /\ nbuilds < MaxBuilds
    /\ nbuilds' = nbuilds + 1
    /\ LET r == build(FS, mod_info, output_dir, zip_file) IN
       /\ files' = r.files
       /\ dirs' = r.dirs
       /\ last' = [NoCall EXCEPT !.op = "build", !.raised = r.raised,
                                 !.zip = zip_file, !.out = output_dir,
                                 !.pre = get_file_list(FS),
                                 !.entries = r.entries, !.ret = r.ret]
    /\ UNCHANGED <<descriptor, image, scan, bpc, mod_info, nchanges>>
    /\ UNCHANGED ivars

\* the author writes a plain file into the mod directory
WriteFile(path) ==
    /\ nchanges < MaxChanges
    /\ path \notin files
    /\ files' = files \cup {path}
    /\ dirs' = dirs \cup parents({path})
    /\ last' = NoCall
    /\ nchanges' = nchanges + 1
    /\ UNCHANGED <<descriptor, image, scan, bpc, mod_info, nbuilds>>
    /\ UNCHANGED ivars

\* the author writes (or rewrites) mod.info
WriteDescriptor(text) ==
    /\ nchanges < MaxChanges
    /\ ~(mod_info_path \in files /\ descriptor = text)
    /\ files' = files \cup {mod_info_path}
    /\ descriptor' = text
    /\ last' = NoCall
    /\ nchanges' = nchanges + 1
    /\ UNCHANGED <<dirs, image, scan, bpc, mod_info, nbuilds>>
    /\ UNCHANGED ivars

\* the author writes (or rewrites) an image file
WriteImage(path, kind) ==
    /\ nchanges < MaxChanges
    /\ ~(path \in files /\ image[path] = kind)
    /\ files' = files \cup {path}
    /\ image' = [image EXCEPT ![path] = kind]
    /\ last' = NoCall
    /\ nchanges' = nchanges + 1
    /\ UNCHANGED <<dirs, descriptor, scan, bpc, mod_info, nbuilds>>
    /\ UNCHANGED ivars

\* the author removes a file of the mod directory
RemoveFile(path) ==
    /\ nchanges < MaxChanges
    /\ path \in files
    /\ files' = files \ {path}
    /\ descriptor' = IF path = mod_info_path THEN <<>> ELSE descriptor
    /\ image' = IF path \in ImagePaths THEN [image EXCEPT ![path] = "png"] ELSE image
    /\ last' = NoCall
    /\ nchanges' = nchanges + 1
    /\ UNCHANGED <<dirs, scan, bpc, mod_info, nbuilds>>
    /\ UNCHANGED ivars

\* the author removes the mod directory itself
RemoveRoot ==
    /\ nchanges < MaxChanges
    /\ exists(FS, mod_path)
    /\ files' = {p \in files : ~is_under(p, mod_path)}
    /\ dirs' = {p \in dirs : p # mod_path /\ ~is_under(p, mod_path)}
    /\ descriptor' = <<>>
    /\ image' = [p \in ImagePaths |-> "png"]
    /\ last' = NoCall
    /\ nchanges' = nchanges + 1
    /\ UNCHANGED <<scan, bpc, mod_info, nbuilds>>
    /\ UNCHANGED ivars

\* SpecValidate: the author edits the mod directory and validates it
NextValidate ==
    \/ Construct
    \/ Validate
    \/ \E p \in PlainPaths : WriteFile(p)
    \/ \E t \in Descriptors : WriteDescriptor(t)
    \/ \E p \in ImagePaths : \E k \in ImageKinds : WriteImage(p, k)
    \/ \E p \in PlainPaths \cup ImagePaths \cup {mod_info_path} : RemoveFile(p)

SpecValidate == Init /\ [][NextValidate]_vars

\* SpecBuild: the author edits the mod directory and builds it
NextBuild ==
    \/ Construct
    \/ \E d \in OutputDirs : \E z \in BOOLEAN : Build(d, z)
    \/ \E p \in PlainPaths : WriteFile(p)
    \/ \E p \in PlainPaths \cup {mod_info_path} : RemoveFile(p)

SpecBuild == Init /\ [][NextBuild]_vars

\* SpecRoot: the mod directory may be missing when the builder is constructed
\* and may be removed or filled again by its author at any time
NextRoot ==
    \/ Construct
    \/ Validate
    \/ \E d \in OutputDirs : \E z \in BOOLEAN : Build(d, z)
    \/ RemoveRoot
    \/ \E p \in PlainPaths : WriteFile(p)

SpecRoot == Init /\ [][NextRoot]_vars

-----------------------------------------------------------------------------
(* SpecCli: one run of the `build` command (cmd_build) *)

\* the two cmd_build of the repository: the one of pz_mod_builder/cli.py
\* prints the issues and aborts, the one of src/pz_mod_builder/cli.py asks
\* "Build anyway?"
CliImpls == {"plain", "rich"}

\* a run as it starts: the implementation, the parsed arguments, and the
\* progress of the command (code is -1 until the command returns)
CliRuns ==
    [impl : CliImpls, skip_validation : BOOLEAN, force : BOOLEAN,
     no_zip : BOOLEAN, output : OutputDirs, pc : {"construct"},
     validated : {FALSE}, issues : {<<>>}, asked : {FALSE}, built : {FALSE},
     code : {-1}]

InitCli ==
    /\ rec = ModInfo_init /\ content = "none" /\ fresh = "none"
    /\ ipc = "edit" /\ nassign = 0 /\ input = "none"
    /\ cli \in CliRuns
    /\ files \in InitTrees
    /\ dirs = {mod_path} \cup parents(files)
    /\ descriptor \in IF mod_info_path \in files THEN Descriptors ELSE {<<>>}
    /\ image = [p \in ImagePaths |-> "png"]
    /\ scan \in {"asc", "desc"}
    /\ bpc = "new"
    /\ mod_info = None
    /\ last = NoCall
    /\ nchanges = 0
    /\ nbuilds = 0

\* builder = ModBuilder(args.path); an exception ends the command with 1
CliConstruct ==
    /\ cli.pc = "construct"
    /\ IF ~exists(FS, mod_path)
       THEN /\ bpc' = "failed"
            /\ mod_info' = None
            /\ cli' = [cli EXCEPT !.pc = "returned", !.code = 1]
       ELSE /\ bpc' = "ready"
            /\ mod_info' = IF exists(FS, mod_info_path)
                           THEN <<ModInfo_load(descriptor)>> ELSE None
            /\ cli' = [cli EXCEPT !.pc = IF cli.skip_validation
                                         THEN "build" ELSE "validate"]
    /\ UNCHANGED <<files, dirs, descriptor, image, scan, last, nchanges, nbuilds>>
    /\ UNCHANGED <<rec, content, fresh, ipc, nassign, input>>

\* issues = builder.validate() and the branches on its result
CliValidate ==
    /\ cli.pc = "validate"
    /\ LET r == validate(FS, image, mod_info) IN
       /\ last' = [NoCall EXCEPT !.op = "validate", !.raised = r.raised,
                                 !.issues = r.issues]
       /\ cli' =
             IF r.raised
             THEN [cli EXCEPT !.pc = "returned", !.code = 1]
             ELSE IF r.issues = <<>> \/ cli.force
             THEN [cli EXCEPT !.validated = TRUE, !.issues = r.issues,
                              !.pc = "build"]
             ELSE IF cli.impl = "plain"
             THEN [cli EXCEPT !.validated = TRUE, !.issues = r.issues,
                              !.pc = "returned", !.code = 1]
             ELSE [cli EXCEPT !.validated = TRUE, !.issues = r.issues,
                              !.pc = "confirm"]
    /\ UNCHANGED <<files, dirs, descriptor, image, scan, bpc, mod_info, nchanges,
                   nbuilds>>
    /\ UNCHANGED <<rec, content, fresh, ipc, nassign, input>>

\* questionary.confirm("Build anyway?").ask(): the user's answer
CliConfirm(answer) ==
    /\ cli.pc = "confirm"
    /\ cli' = IF answer
              THEN [cli EXCEPT !.asked = TRUE, !.pc = "build"]
              ELSE [cli EXCEPT !.asked = TRUE, !.pc = "returned", !.code = 1]
    /\ UNCHANGED bvars
    /\ UNCHANGED <<rec, content, fresh, ipc, nassign, input>>

\* result = builder.build(output, zip_file=not args.no_zip); return 0, or 1
\* when an exception was caught
CliBuild ==
    /\ cli.pc = "build"
    /\ LET r == build(FS, mod_info, cli.output, ~cli.no_zip) IN
       /\ files' = r.files
       /\ dirs' = r.dirs
       /\ last' = [NoCall EXCEPT !.op = "build", !.raised = r.raised,
                                 !.zip = ~cli.no_zip, !.out = cli.output,
                                 !.pre = get_file_list(FS),
                                 !.entries = r.entries, !.ret = r.ret]
       /\ cli' = [cli EXCEPT !.built = TRUE, !.pc = "returned",
                             !.code = IF r.raised THEN 1 ELSE 0]
    /\ nbuilds' = nbuilds + 1
    /\ UNCHANGED <<descriptor, image, scan, bpc, mod_info, nchanges>>
    /\ UNCHANGED <<rec, content, fresh, ipc, nassign, input>>

NextCli ==
    \/ CliConstruct
    \/ CliValidate
    \/ \E answer \in BOOLEAN : CliConfirm(answer)
    \/ CliBuild
    \/ RemoveRoot

SpecCli == InitCli /\ [][NextCli]_vars

-----------------------------------------------------------------------------
(* SpecParse: a descriptor text parsed, written again and parsed again *)

\* longest require value drawn character by character
MaxLen == 4

\* the characters of the require values drawn
RequireChars == {"a", "b", ",", " "}

\* the example value of the specification: "a, b ,,c"
ExampleRequire == <<"a", ",", " ", "b", " ", ",", ",", "c">>

\* the values that follow `require=` in the descriptors parsed
RequireTexts ==
    UNION {[1..k -> RequireChars] : k \in 0..MaxLen} \cup {ExampleRequire}

\* the lines that precede the require line
Preambles ==
    { <<>>,
      Line("pzversion", <<"b", "4", "1">>),
      Line("pzversion", <<>>) }

\* the text of a descriptor drawn: preamble, the require line, the rest
text_of(in) ==
    in.before \o KeyText("require") \o <<"=">> \o in.require \o in.after

InitParse ==
    /\ input \in [before : Preambles, require : RequireTexts,
                  after : {<<>>, <<"\n">>}]
    /\ rec = "none"
    /\ content = "none"
    /\ fresh = "none"
    /\ ipc = "text"
    /\ nassign = 0
    /\ cli = "none"
    /\ files = {} /\ dirs = {} /\ descriptor = <<>> /\ image = <<>>
    /\ scan = "asc" /\ bpc = "new" /\ mod_info = None /\ last = NoErrors
    /\ nchanges = 0 /\ nbuilds = 0

\* ModInfo(file_path) on a file holding the text drawn
Parse ==
    /\ ipc = "text"
    /\ rec' = ModInfo_load(text_of(input))
    /\ ipc' = "edit"
    /\ UNCHANGED <<content, fresh, nassign, input, cli>>
    /\ UNCHANGED bvars

NextParse ==
    \/ Parse
    \/ Save
    \/ Load

SpecParse == InitParse /\ [][NextParse]_vars

-----------------------------------------------------------------------------
(* C1 *)

\* C1 (as claimed): once the text of to_string() has been parsed into a fresh
\* record, every field that was non-empty in the original has exactly the
\* same value in the fresh record, the require list element for element.
C1_RoundTrip ==
    ipc = "loaded" =>
        \A f \in DOMAIN rec : rec[f] # <<>> => fresh[f] = rec[f]

-----------------------------------------------------------------------------
(* Vocabulary of the claims about ModBuilder *)

\* number of times x occurs in a sequence
RECURSIVE count(_, _)
count(seq, x) ==
    IF seq = <<>> THEN 0
    ELSE (IF Head(seq) = x THEN 1 ELSE 0) + count(Tail(seq), x)

\* the last call on the builder was validate() and it returned its list
Validated == last.op = "validate" /\ ~last.raised

RecordMessages ==
    {"Mod name is required", "Mod ID is required",
     "Mod ID must contain only letters, numbers, and underscores",
     "Mod description is required"}

PosterMessages == {"Poster image not found: ", "Invalid poster image: "}

TileMessages == {"Tile image not found: ", "Invalid tile image: "}

\* the group of an issue, in the order the specification lists the groups
Group(issue) ==
    CASE issue.msg = "Missing mod.info file" -> 1
      [] issue.msg \in RecordMessages -> 2
      [] issue.msg \in PosterMessages -> 3
      [] issue.msg \in TileMessages -> 4
      [] issue.msg = "Unusual file extension: " -> 5

\* the issues of one group, in the order they stand in the list
RECURSIVE of_groups(_, _)
of_groups(issues, groups) ==
    IF issues = <<>> THEN <<>>
    ELSE (IF Group(Head(issues)) \in groups THEN <<Head(issues)>> ELSE <<>>)
         \o of_groups(Tail(issues), groups)

\* the root-relative text of the regular files under the root
RootFiles == {str_of(relative_to(p, mod_path)) : p \in {q \in files : is_under(q, mod_path)}}

\* the root-relative text of the regular files under a directory
FilesUnder(dir) == {str_of(relative_to(p, dir)) : p \in {q \in files : is_under(q, dir)}}

\* the file name of a relative path given as text begins with '.'
IsDotfile(text) == Head(split(text, "/")[Len(split(text, "/"))]) = "."

-----------------------------------------------------------------------------
(* C2 *)

\* C2 (as claimed): after build(output_dir, zip_file=True) the archive's entry
\* names are exactly get_file_list() of the root the call was given, minus
\* the dotfiles, wherever output_dir lies.
C2_ArchiveEntries ==
    (last.op = "build" /\ last.zip) =>
        /\ ~last.raised
        /\ Range(last.entries) = {f \in Range(last.pre) : ~IsDotfile(f)}

-----------------------------------------------------------------------------
(* C3 *)

\* C3 (as claimed): whenever a build(output_dir, zip_file=False) call is made,
\* also on a builder that built before and on a root changed since, every
\* file then found in output_dir/<name> is a file the root had at this build:
\* nothing else, in particular nothing of an older output, is left there.
C3_RebuildReplaces ==
    [][(last'.op = "build" /\ ~last'.zip /\ nbuilds' = nbuilds + 1) =>
          {str_of(relative_to(p, last'.ret)) :
              p \in {q \in files' : is_under(q, last'.ret)}} = RootFiles]_vars

-----------------------------------------------------------------------------
(* C4 *)

\* C4 (as claimed): after build(output_dir, zip_file=False) the directory
\* output_dir/<name> holds exactly the relative paths of get_file_list() of
\* the root the call was given, dotfiles included.
C4_DirectoryEqualsFileList ==
    (last.op = "build" /\ ~last.zip) =>
        /\ ~last.raised
        /\ FilesUnder(last.ret) = Range(last.pre)

-----------------------------------------------------------------------------
(* C5 *)

\* C5: whenever validate() returns its list for a root that holds no mod.info,
\* the list holds "Missing mod.info file" exactly once and none of the four
\* issues of ModInfo.validate, also when a record was loaded at construction.
C5_MissingDescriptor ==
    (Validated /\ mod_info_path \notin files) =>
        /\ count(last.issues, Issue("Missing mod.info file", <<>>)) = 1
        /\ \A i \in DOMAIN last.issues : last.issues[i].msg \notin RecordMessages

\* a record with faults of its own was loaded, mod.info was removed afterwards,
\* and validate() has returned
C5_Witness ==
    /\ Validated
    /\ mod_info_path \notin files
    /\ mod_info # None
    /\ ModInfo_validate(mod_info[1]) # <<>>

-----------------------------------------------------------------------------
(* C6 *)

\* what the claim expects of one declared image: one "not found" issue when
\* the file is missing, nothing when it verifies, one "invalid" issue when it
\* exists and fails verification
ExpectedImageIssues(value, notfound, invalid) ==
    LET path == path_join(mod_path, value) IN
    IF ~exists(FS, path) THEN <<Issue(notfound, value)>>
    ELSE IF verify_image(FS, image, path) = "ok" THEN <<>>
    ELSE <<Issue(invalid, value)>>

\* C6 (as claimed): after validate() on a builder whose record declares a
\* poster, the poster issues reported are exactly the one the state of the
\* poster file calls for; the same for a declared tile, whatever the poster.
C6_ImageIssues ==
    (last.op = "validate" /\ mod_info # None) =>
        /\ mod_info[1].poster # <<>> =>
              /\ ~last.raised
              /\ of_groups(last.issues, {3}) =
                    ExpectedImageIssues(mod_info[1].poster,
                        "Poster image not found: ", "Invalid poster image: ")
        /\ mod_info[1].tile # <<>> =>
              /\ ~last.raised
              /\ of_groups(last.issues, {4}) =
                    ExpectedImageIssues(mod_info[1].tile,
                        "Tile image not found: ", "Invalid tile image: ")

-----------------------------------------------------------------------------
(* C7 *)

\* the files the claim says are flagged: every regular file under the root,
\* other than <root>/mod.info, whose lower-cased extension is non-empty and
\* not whitelisted
ClaimedUnusual(path) ==
    /\ path \in files
    /\ is_under(path, mod_path)
    /\ path # mod_info_path
    /\ lower(suffix(name_of(path))) # <<>>
    /\ lower(suffix(name_of(path))) \notin VALID_EXTENSIONS

\* C7 (as claimed): the list validate() returns holds exactly one "Unusual
\* file extension" issue for each such file and none for any other file.
C7_ExtensionIssues ==
    Validated =>
        \A path \in files :
            count(last.issues,
                  Issue("Unusual file extension: ",
                        str_of(relative_to(path, mod_path))))
            = IF ClaimedUnusual(path) THEN 1 ELSE 0

-----------------------------------------------------------------------------
(* C8 *)

\* C8: in the list validate() returns no issue of a later group precedes an
\* issue of an earlier group: descriptor presence, record validation, poster,
\* tile, extensions.
C8_GroupOrder ==
    Validated =>
        \A i, j \in DOMAIN last.issues :
            i < j => Group(last.issues[i]) <= Group(last.issues[j])

\* validate() returned record, poster, tile and extension issues together
C8_Witness ==
    /\ Validated
    /\ \A g \in 2..5 : \E i \in DOMAIN last.issues : Group(last.issues[i]) = g

-----------------------------------------------------------------------------
(* C9 *)

\* C9 (as claimed): the extension issues of the list validate() returns stand
\* in the order of get_file_list(): sorted by the text of the relative path.
C9_ExtensionOrder ==
    Validated =>
        LET ext == of_groups(last.issues, {5}) IN
        \A i, j \in DOMAIN ext : i < j => str_lt(ext[i].arg, ext[j].arg)

-----------------------------------------------------------------------------
(* C10 *)

\* C10 (as claimed): validate() on an existing root always returns an issue
\* list; no exception escapes, whatever image verification does.
C10_NeverRaises == last.op = "validate" => ~last.raised

-----------------------------------------------------------------------------
(* C11 *)

\* every field of a record, in the order to_string() writes them
AllFields == StrFields \o <<"require">>

\* the fields of a record that are not empty, in that order
NonEmptyFields(r) == SelectSeq(AllFields, LAMBDA f : r[f] # <<>>)

\* the lines of a text, as str.splitlines() gives them for '\n' line ends
Lines(text) ==
    LET parts == split(text, "\n") IN
    IF parts[Len(parts)] = <<>> THEN SubSeq(parts, 1, Len(parts) - 1) ELSE parts

\* C11 (as claimed): the text of to_string() ends with exactly one newline and
\* its lines are, one for one and in the fixed field order, the non-empty
\* fields of the record, each line being the field's key, '=' and a non-empty
\* value; so there is no blank line, no bare `key=` line and no line for an
\* empty field, also for the record whose fields are all empty.
C11_OneLinePerField ==
    ipc = "saved" =>
        LET lines == Lines(content)
            ne == NonEmptyFields(rec)
        IN  /\ content # <<>> /\ content[Len(content)] = "\n"
            /\ ~(Len(content) >= 2 /\ content[Len(content) - 1] = "\n")
            /\ Len(lines) = Len(ne)
            /\ \A i \in DOMAIN lines :
                  LET key == KeyText(ne[i]) \o <<"=">> IN
                  /\ Len(lines[i]) > Len(key)
                  /\ SubSeq(lines[i], 1, Len(key)) = key

-----------------------------------------------------------------------------
(* C12 *)

\* the cut points of a require value: before its first character, at each of
\* its commas, after its last character
Cuts(v) == {0, Len(v) + 1} \cup {i \in 1..Len(v) : v[i] = ","}

\* the j-th cut point from the left
Cut(v, j) == CHOOSE i \in Cuts(v) : Cardinality({k \in Cuts(v) : k < i}) = j - 1

\* what the claim says the parsed list is: the texts between neighbouring cut
\* points, trimmed, the empty ones left out, from left to right
ExpectedRequire(v) ==
    SelectSeq([j \in 1..(Cardinality(Cuts(v)) - 1) |->
                   strip(SubSeq(v, Cut(v, j) + 1, Cut(v, j + 1) - 1))],
              LAMBDA t : t # <<>>)

\* C12: the require list of a parsed descriptor holds the comma-separated
\* tokens of the require value, trimmed, without the empty ones, in their
\* order; and writing the parsed record with to_string() and parsing that
\* text gives the same list again.
C12_RequireParse ==
    /\ ipc = "edit" => rec.require = ExpectedRequire(input.require)
    /\ ipc = "loaded" => fresh.require = rec.require

\* "a, b ,,c" was parsed to [a, b, c], written and parsed again
C12_Witness ==
    /\ ipc = "loaded"
    /\ input.require = ExampleRequire
    /\ rec.require = << <<"a">>, <<"b">>, <<"c">> >>
    /\ fresh.require = << <<"a">>, <<"b">>, <<"c">> >>

-----------------------------------------------------------------------------
(* C13 *)

\* the four issues of ModInfo.validate, in the order the claim gives them
InfoIssues ==
    << Issue("Mod name is required", <<>>),
       Issue("Mod ID is required", <<>>),
       Issue("Mod ID must contain only letters, numbers, and underscores", <<>>),
       Issue("Mod description is required", <<>>) >>

\* the claim's condition for each of the four issues on a record
Applies(r, k) ==
    CASE k = 1 -> r.name = <<>>
      [] k = 2 -> r.id = <<>>
      [] k = 3 -> r.id # <<>> /\ \E i \in DOMAIN r.id : r.id[i] \notin WordChars
      [] k = 4 -> r.description = <<>>

\* C13 (as claimed): a call of ModInfo.validate() returns (it does not raise),
\* leaves the record as it was, and its list holds each of the four issues
\* exactly when the issue applies to the record, once, in the fixed order;
\* the id-format issue applies when id is non-empty and is not made of
\* characters of [A-Za-z0-9_] only.
C13_InfoIssues ==
    [][(last.op = "none" /\ last'.op = "validate") =>
          /\ ~last'.raised
          /\ rec' = rec
          /\ \A k \in 1..4 :
                count(last'.errors, InfoIssues[k]) = IF Applies(rec, k) THEN 1 ELSE 0
          /\ \A i, j \in DOMAIN last'.errors :
                i < j => \E k, l \in 1..4 :
                            /\ k < l
                            /\ last'.errors[i] = InfoIssues[k]
                            /\ last'.errors[j] = InfoIssues[l]]_vars

-----------------------------------------------------------------------------
(* C14 *)

\* the name the claim gives the artifact: the id of the record loaded at
\* construction when there is one and its id is not empty, else the name of
\* the root directory
ClaimedName ==
    IF mod_info # None /\ mod_info[1].id # <<>>
    THEN mod_info[1].id ELSE name_of(mod_path)

\* C14 (as claimed): every build() call, made without any validate() call
\* before it and also on a root without mod.info, succeeds and returns
\* output_dir/<name>.zip when zip_file is true and output_dir/<name> when it
\* is false.
C14_ArtifactName ==
    last.op = "build" =>
        /\ ~last.raised
        /\ last.ret =
              Append(last.out,
                     ClaimedName \o (IF last.zip THEN <<".", "z", "i", "p">>
                                                 ELSE <<>>))

-----------------------------------------------------------------------------
(* C15 *)

\* C15: a construction on a root that does not exist fails: the caller gets no
\* builder, no descriptor is read and nothing is reported; a builder comes to
\* exist only by a construction on an existing root, and validate() and
\* build() are called only on a builder that exists.
C15_MissingRoot ==
    [][/\ (bpc = "new" /\ bpc' # "new" /\ ~exists(FS, mod_path)) =>
             /\ bpc' = "failed"
             /\ mod_info' = None
             /\ last' = last
       /\ (bpc # "ready" /\ bpc' = "ready") => exists(FS, mod_path)
       /\ (last'.op # "none" /\ last' # last) => bpc = "ready"
       /\ bpc = "failed" => (bpc' = "failed" /\ last'.op = "none")]_vars

\* a ModBuilder was constructed on a missing root and the construction failed
C15_Witness == bpc = "failed" /\ ~exists(FS, mod_path) /\ last.op = "none"

-----------------------------------------------------------------------------
(* C16 *)

\* C16 (as claimed): in a run of the build command given neither
\* --skip-validation nor --force in which validate() returned a non-empty
\* list, ModBuilder.build is not invoked and the command returns 1; and
\* build is invoked only after validate() returned or validation was skipped.
C16_Gated ==
    /\ (~cli.skip_validation /\ ~cli.force /\ cli.validated /\ cli.issues # <<>>) =>
          /\ ~cli.built
          /\ cli.pc = "returned" => cli.code = 1
    /\ cli.built => (cli.validated \/ cli.skip_validation)

-----------------------------------------------------------------------------
(* C17 *)

\* C17 (as claimed): whenever validate() returns its list on a builder that
\* loaded a record at construction, the record issues in the list are exactly
\* the issues of that record's own validate(), in its order, whatever became
\* of mod.info since the construction.
C17_RecordIssues ==
    (Validated /\ mod_info # None) =>
        of_groups(last.issues, {2}) = ModInfo_validate(mod_info[1])

-----------------------------------------------------------------------------
(* C18 *)

\* C18 (as claimed): in the require list of a parsed record no element is
\* empty and no string occurs twice.
C18_NoDuplicates ==
    ipc = "edit" =>
        /\ \A i \in DOMAIN rec.require : rec.require[i] # <<>>
        /\ \A i, j \in DOMAIN rec.require :
              i # j => rec.require[i] # rec.require[j]

-----------------------------------------------------------------------------
(* C19 *)

\* C19 (as claimed): every build() call runs to completion (it returns, no
\* exception ends it) and does not feed on its own output: the archive has no
\* entry for the archive file itself, and the copy made at output_dir/<name>
\* holds no copy of output_dir/<name>; also for an output_dir inside the root.
C19_NoSelfFeeding ==
    last.op = "build" =>
        /\ ~last.raised
        /\ is_under(last.ret, mod_path) =>
              IF last.zip
              THEN \A i \in DOMAIN last.entries :
                      last.entries[i] # str_of(relative_to(last.ret, mod_path))
              ELSE ~exists(FS, last.ret \o relative_to(last.ret, mod_path))

-----------------------------------------------------------------------------
(* C20 *)

\* C20 (as claimed): the pzversion of a record constructed from a descriptor
\* text is "b42", whatever the text holds.
C20_FixedPzversion ==
    ipc = "edit" => rec.pzversion = <<"b", "4", "2">>

====
